---- MODULE Spec2Model ----
(***************************************************************************)
(* Model of main.ipynb: the Monte Carlo estimator of the expected distance *)
(* lost E(a) for a lane threshold a, the search optimize() over a, and the *)
(* grid evaluation of E(a).                                                *)
(*                                                                         *)
(* Numbers are exact fixed point: the real 1.0 is One units, so that every *)
(* tenth (the worked examples) and every multiple of 2^-10 (the thresholds *)
(* optimize visits) is an integer.  A squared speed is in units of One^2.  *)
(* A mean is the exact fraction <<sum, count>>.  Floating point rounding   *)
(* is not modelled.                                                        *)
(***************************************************************************)
EXTENDS Integers, Sequences, FiniteSets, TLC

\* 1.0 in fixed point units (upper end of uniform(0, 1) and of the search).
One == 5120

\* Number of speed pairs of the sample (N = 100000 in the notebook).
N == 2

\* Number of grid points of np.linspace(0, 1, 1000) in the second cell.
GridPoints == 5

\* epsilon = 1e-3 = 1 / epsilon_den
epsilon_den == 1000

\* The speeds a pair may be drawn with: 0.0, 0.1, 0.7, 0.8.
SpeedVals == {0, 512, 3584, 4096}

\* Thresholds the cost function is probed with: 0, 0.1, 0.2, 0.5, 0.7, 0.8, 0.9, 1,
\* and the thresholds one unit below 0.1 and 0.7 and one unit above 0.1 and 0.8.
Thresholds == {0, 511, 512, 513, 1024, 2560, 3583, 3584, 4096, 4097, 4608, 5120}

\* Arguments optimize is called with (the notebook calls optimize(0.5)).
ArgVals == {2560, 1024}

VARIABLES
    v1, v2,         \* the drawn speeds, sequences of length N
    vmin, vmax,     \* elementwise minimum and maximum of v1, v2
    pc,             \* position in the notebook's execution
    arg_a,          \* the parameter a of optimize
    low, high, mid, cost_mid, cost_low,   \* locals of optimize
    out,            \* lines printed by optimize
    sim,            \* locals of the latest call of simulate_cost_vectorized
    log,            \* every call made during the run: <<a, returned value>>
    gi, costs       \* progress and result of the list comprehension over a_values

vars == <<v1, v2, vmin, vmax, pc, arg_a, low, high, mid, cost_mid, cost_low,
          out, sim, log, gi, costs>>

sample == <<v1, v2, vmin, vmax>>
optvars == <<arg_a, low, high, mid, cost_mid, cost_low, out>>

\* A local that has not been assigned yet: no threshold, and no fraction.
Unset == 0 - 1

UnsetCost == <<0, 0>>

\* sim before the first call.
NoCall == [called |-> FALSE]

-----------------------------------------------------------------------------
(* numpy helpers *)

\* Variant: the first array taken as it is.
minimum_first(x, y) == [i \in 1..Len(x) |-> x[i]]

minimum(x, y) == [i \in 1..Len(x) |-> IF x[i] < y[i] THEN x[i] ELSE y[i]]

maximum(x, y) == [i \in 1..Len(x) |-> IF x[i] > y[i] THEN x[i] ELSE y[i]]

\* x[mask]: the elements of x whose mask entry is True, in order.
RECURSIVE MaskIndex(_, _)
MaskIndex(x, mask) ==
    IF x = <<>> THEN <<>>
    ELSE (IF Head(mask) THEN <<Head(x)>> ELSE <<>>)
             \o MaskIndex(Tail(x), Tail(mask))

\* np.sum(mask): the number of True entries.
RECURSIVE npsum(_)
npsum(mask) ==
    IF mask = <<>> THEN 0
    ELSE (IF Head(mask) THEN 1 ELSE 0) + npsum(Tail(mask))

zeros(n) == [i \in 1..n |-> 0]

RECURSIVE Total(_)
Total(x) == IF x = <<>> THEN 0 ELSE Head(x) + Total(Tail(x))

\* np.mean(x) as the exact fraction sum / count.
mean(x) == <<Total(x), Len(x)>>

\* Order and equality of fractions with nonnegative denominators.
Less(p, q) == p[1] * q[2] < q[1] * p[2]

Same(p, q) == p[1] * q[2] = q[1] * p[2]

-----------------------------------------------------------------------------
(* simulate_cost_vectorized(a) *)

\* Variant: the boundary a = vmax taken into the first case as well.
Case1_inclusive(a) == [i \in 1..N |-> a >= vmax[i]]

Case1(a) == [i \in 1..N |-> a > vmax[i]]

\* Variant: the square left out.
Cost1_linear(a) ==
    LET sel == MaskIndex(vmin, Case1(a))
    IN  [k \in 1..Len(sel) |-> sel[k] - a]

\* Variant: the distance taken from the faster car's speed.
Cost1_fromvmax(a) ==
    LET sel == MaskIndex(vmax, Case1(a))
    IN  [k \in 1..Len(sel) |-> (sel[k] - a) * (sel[k] - a)]

\* Variant: the slower car brought to a stop.
Cost1_stop(a) ==
    LET sel == MaskIndex(vmin, Case1(a))
    IN  [k \in 1..Len(sel) |-> (sel[k] + One) * (sel[k] + One)]

Cost1(a) ==
    LET sel == MaskIndex(vmin, Case1(a))
    IN  [k \in 1..Len(sel) |-> (sel[k] - a) * (sel[k] - a)]

\* Variant: the boundaries left out of the middle case.
Case2_strict(a) == [i \in 1..N |-> (a > vmin[i]) /\ (a < vmax[i])]

Case2(a) == [i \in 1..N |-> (a >= vmin[i]) /\ (a <= vmax[i])]

Cost2(a) == zeros(npsum(Case2(a)))

Case3(a) == [i \in 1..N |-> a < vmin[i]]

\* Variant: the slower car brought to the threshold.
Cost3_threshold(a) ==
    LET sel == MaskIndex(vmin, Case3(a))
    IN  [k \in 1..Len(sel) |-> (sel[k] - a) * (sel[k] - a)]

Cost3(a) ==
    LET sel == MaskIndex(vmin, Case3(a))
    IN  [k \in 1..Len(sel) |-> (sel[k] + One) * (sel[k] + One)]

\* The locals of one call and the value it returns.
simulate_cost_vectorized(a) ==
    LET all == Cost1(a) \o Cost2(a) \o Cost3(a)
    IN  [called |-> TRUE, a |-> a,
         case1 |-> Case1(a), cost1 |-> Cost1(a),
         case2 |-> Case2(a), cost2 |-> Cost2(a),
         case3 |-> Case3(a), cost3 |-> Cost3(a),
         all_costs |-> all, ret |-> mean(all)]

\* E(a): the value the call returns.
E(a) == simulate_cost_vectorized(a).ret

\* Variant: the subtraction done in place on the selected part of vmin.
SimCall_inplace(a) ==
    /\ sim' = simulate_cost_vectorized(a)
    /\ vmin' = [i \in 1..N |-> IF a > vmax[i] THEN vmin[i] - a ELSE vmin[i]]
    /\ UNCHANGED <<v1, v2, vmax>>

\* One call: it reads the module-level sample and assigns only locals.
SimCall(a) ==
    /\ sim' = simulate_cost_vectorized(a)
    /\ UNCHANGED sample

-----------------------------------------------------------------------------
(* first cell: the sample is drawn, then optimize(arg_a) runs *)

Init ==
    /\ v1 \in [1..N -> SpeedVals]
    /\ v2 \in [1..N -> SpeedVals]
    /\ vmin = minimum(v1, v2)
    /\ vmax = maximum(v1, v2)
    /\ arg_a \in ArgVals
    /\ low = 0
    /\ high = One
    /\ mid = Unset
    /\ cost_mid = UnsetCost
    /\ cost_low = UnsetCost
    /\ out = <<>>
    /\ sim = NoCall
    /\ log = <<>>
    /\ gi = 0
    /\ costs = <<>>
    /\ pc = "while"

\* Variant: a tolerance ten times smaller.
OptWhile_tight ==
    /\ pc = "while"
    /\ pc' = IF (high - low) * epsilon_den * 10 > One THEN "mid" ELSE "grid"
    /\ UNCHANGED <<sample, optvars, sim, log, gi, costs>>

\* while high - low > epsilon:
OptWhile ==
    /\ pc = "while"
    /\ pc' = IF (high - low) * epsilon_den > One THEN "mid" ELSE "grid"
    /\ UNCHANGED <<sample, optvars, sim, log, gi, costs>>

\* Variant: the argument taken as the first midpoint.
OptMid_fromarg ==
    /\ pc = "mid"
    /\ mid' = IF out = <<>> THEN arg_a ELSE (low + high) \div 2
    /\ pc' = "cost_mid"
    /\ UNCHANGED <<sample, arg_a, low, high, cost_mid, cost_low, out, sim, log, gi, costs>>

\* Variant: low left out of the midpoint.
OptMid_offset ==
    /\ pc = "mid"
    /\ mid' = (high - low) \div 2
    /\ pc' = "cost_mid"
    /\ UNCHANGED <<sample, arg_a, low, high, cost_mid, cost_low, out, sim, log, gi, costs>>

\* mid = (low + high) / 2
OptMid ==
    /\ pc = "mid"
    /\ mid' = (low + high) \div 2
    /\ pc' = "cost_mid"
    /\ UNCHANGED <<sample, arg_a, low, high, cost_mid, cost_low, out, sim, log, gi, costs>>

\* cost_mid = simulate_cost_vectorized(mid)
OptCostMid ==
    /\ pc = "cost_mid"
    /\ SimCall(mid)
    /\ cost_mid' = sim'.ret
    /\ log' = Append(log, <<mid, sim'.ret>>)
    /\ pc' = "cost_low"
    /\ UNCHANGED <<arg_a, low, high, mid, cost_low, out, gi, costs>>

\* Variant: the other bound evaluated.
OptCostLow_high ==
    /\ pc = "cost_low"
    /\ SimCall(high)
    /\ cost_low' = sim'.ret
    /\ log' = Append(log, <<high, sim'.ret>>)
    /\ pc' = "if"
    /\ UNCHANGED <<arg_a, low, high, mid, cost_mid, out, gi, costs>>

\* cost_low = simulate_cost_vectorized(low)
OptCostLow ==
    /\ pc = "cost_low"
    /\ SimCall(low)
    /\ cost_low' = sim'.ret
    /\ log' = Append(log, <<low, sim'.ret>>)
    /\ pc' = "if"
    /\ UNCHANGED <<arg_a, low, high, mid, cost_mid, out, gi, costs>>

\* Variant: the comparison turned around.
OptIf_flipped ==
    /\ pc = "if"
    /\ IF Less(cost_low, cost_mid)
          THEN low' = mid /\ high' = high
          ELSE high' = mid /\ low' = low
    /\ out' = Append(out, [low |-> low', high |-> high', mid |-> mid,
                           cost_mid |-> cost_mid, cost_low |-> cost_low])
    /\ pc' = "while"
    /\ UNCHANGED <<sample, arg_a, mid, cost_mid, cost_low, sim, log, gi, costs>>

\* Variant: the comparison taken as cost_mid <= cost_low.
OptIf_le ==
    /\ pc = "if"
    /\ IF ~Less(cost_low, cost_mid)
          THEN low' = mid /\ high' = high
          ELSE high' = mid /\ low' = low
    /\ out' = Append(out, [low |-> low', high |-> high', mid |-> mid,
                           cost_mid |-> cost_mid, cost_low |-> cost_low])
    /\ pc' = "while"
    /\ UNCHANGED <<sample, arg_a, mid, cost_mid, cost_low, sim, log, gi, costs>>

\* if cost_mid < cost_low: low = mid  else: high = mid ; print(...)
OptIf ==
    /\ pc = "if"
    /\ IF Less(cost_mid, cost_low)
          THEN low' = mid /\ high' = high
          ELSE high' = mid /\ low' = low
    /\ out' = Append(out, [low |-> low', high |-> high', mid |-> mid,
                           cost_mid |-> cost_mid, cost_low |-> cost_low])
    /\ pc' = "while"
    /\ UNCHANGED <<sample, arg_a, mid, cost_mid, cost_low, sim, log, gi, costs>>

-----------------------------------------------------------------------------
(* second cell: the cost over the grid a_values *)

\* np.linspace(0, 1, GridPoints)[k], k from 0, rounded down to a unit.
a_values(k) == (k * One) \div (GridPoints - 1)

\* costs = [simulate_cost_vectorized(a) for a in a_values], one element a step
GridEval ==
    /\ pc = "grid"
    /\ gi < GridPoints
    /\ SimCall(a_values(gi))
    /\ costs' = Append(costs, sim'.ret)
    /\ log' = Append(log, <<a_values(gi), sim'.ret>>)
    /\ gi' = gi + 1
    /\ UNCHANGED <<pc, optvars>>

GridDone ==
    /\ pc = "grid"
    /\ gi = GridPoints
    /\ pc' = "done"
    /\ UNCHANGED <<sample, optvars, sim, log, gi, costs>>

Next == OptWhile \/ OptMid \/ OptCostMid \/ OptCostLow \/ OptIf \/ GridEval \/ GridDone

Spec == Init /\ [][Next]_vars

-----------------------------------------------------------------------------
(* the cost function on its own: one call with any threshold *)

Probe(a) ==
    /\ SimCall(a)
    /\ UNCHANGED <<pc, optvars, log, gi, costs>>

NextCost == \E a \in Thresholds : Probe(a)

SpecCost == Init /\ [][NextCost]_vars

-----------------------------------------------------------------------------
(* the cost of one pair, read back from the array the call concatenated *)

\* The number of True entries among mask[1..i].
Upto(mask, i) == npsum(SubSeq(mask, 1, i))

\* The entries of f.all_costs that pair i contributed: cost1 comes first,
\* then cost2, then cost3, each in the order of the pairs.
PairEntries(f, i) ==
    (IF f.case1[i]
        THEN <<f.all_costs[Upto(f.case1, i)]>> ELSE <<>>)
    \o (IF f.case2[i]
        THEN <<f.all_costs[Len(f.cost1) + Upto(f.case2, i)]>> ELSE <<>>)
    \o (IF f.case3[i]
        THEN <<f.all_costs[Len(f.cost1) + Len(f.cost2) + Upto(f.case3, i)]>> ELSE <<>>)

Sq(x) == x * x

\* C1: after any call with threshold a, a pair's cost is 0 exactly when
\* vmin <= a <= vmax, both boundaries included.
C1_ZeroIffBetween ==
    sim.called =>
        \A i \in 1..N :
            (PairEntries(sim, i) = <<0>>) <=> (vmin[i] <= sim.a /\ sim.a <= vmax[i])

\* A call on the boundary a = vmin of one pair (cost 0) while another pair costs.
C1_Witness ==
    /\ sim.called
    /\ \E i, j \in 1..N :
          /\ vmin[i] < vmax[i] /\ sim.a = vmin[i] /\ PairEntries(sim, i) = <<0>>
          /\ PairEntries(sim, j) # <<0>>

\* C2: when the threshold is below both speeds (a < vmin, both cars in the
\* fast lane) the pair costs (vmin - a)^2.
C2_FastLaneCostsToThreshold ==
    sim.called =>
        \A i \in 1..N :
            sim.a < vmin[i] => PairEntries(sim, i) = <<Sq(vmin[i] - sim.a)>>

\* C3: when the threshold is above both speeds (a > vmax, both cars in the
\* slow lane) the pair costs (vmin + 1)^2 whatever a is.
C3_SlowLaneCostsToStop ==
    sim.called =>
        \A i \in 1..N :
            sim.a > vmax[i] => PairEntries(sim, i) = <<Sq(vmin[i] + One)>>

C9_MasksPartitionAndMeanOverN ==
    sim.called =>
        /\ \A i \in 1..N :
              /\ sim.case1[i] \/ sim.case2[i] \/ sim.case3[i]
              /\ ~(sim.case1[i] /\ sim.case2[i])
              /\ ~(sim.case1[i] /\ sim.case3[i])
              /\ ~(sim.case2[i] /\ sim.case3[i])
              /\ Len(PairEntries(sim, i)) = 1
        /\ Len(sim.all_costs) = N
        /\ sim.ret = <<Total([i \in 1..N |-> PairEntries(sim, i)[1]]), N>>

\* A call in which the pairs fall in different cases, one of them on a boundary.
C9_Witness ==
    /\ sim.called
    /\ \E i, j \in 1..N :
          /\ sim.case2[i] /\ sim.a = vmax[i]
          /\ sim.case1[j] \/ sim.case3[j]
    /\ Len(sim.all_costs) = N

-----------------------------------------------------------------------------
(* the search *)

\* The notebook runs one statement after the other until the last one.
FairSpec == Spec /\ WF_vars(Next)

\* optimize has returned.
Returned == pc \in {"grid", "done"}

\* The thresholds where E can change direction: between two consecutive
\* ones E is a sum of (a - vmin)^2 terms and constants, so it does not fall.
Crit == {0, One} \cup {vmin[i] : i \in 1..N} \cup {vmax[i] : i \in 1..N}

\* The critical thresholds with their two neighbours.
Pts == {p \in Crit \cup {c + 1 : c \in Crit} \cup {c - 1 : c \in Crit} :
            0 <= p /\ p <= One}

\* E never rises and then falls again over [0, 1].
Unimodal ==
    \A x, y, z \in Pts :
        (x < y /\ y < z) => ~(Less(E(x), E(y)) /\ Less(E(z), E(y)))

\* Some threshold of [lo, hi] attains the minimum of E over [0, 1].
HasMinimizer(lo, hi) ==
    \E p \in {lo} \cup {c \in Crit : lo <= c /\ c <= hi} :
        \A q \in Crit : ~Less(E(q), E(p))

\* C6: when E is unimodal on [0, 1], the interval [low, high] optimize ends
\* with contains a minimizer of E over [0, 1].
C6_FinalIntervalKeepsMinimizer ==
    (Returned /\ Unimodal) => HasMinimizer(low, high)

\* The bounds before iteration k (1-based) of the loop.
LowBefore(k) == IF k = 1 THEN 0 ELSE out[k - 1].low

HighBefore(k) == IF k = 1 THEN One ELSE out[k - 1].high

\* C7: every iteration takes mid = (low + high) / 2 and compares E(mid) with
\* E(low): strictly smaller moves low to mid and keeps high, anything else
\* (a tie included) moves high to mid and keeps low; exactly one bound changes.
C7_OneBoundMovesPerIteration ==
    \A k \in 1..Len(out) :
        LET lo == LowBefore(k)
            hi == HighBefore(k)
            ln == out[k]
            Emid == E(ln.mid)
            Elow == E(lo)
        IN  /\ 2 * ln.mid = lo + hi
            /\ ln.cost_mid = Emid
            /\ ln.cost_low = Elow
            /\ Less(Emid, Elow) => (ln.low = ln.mid /\ ln.high = hi)
            /\ ~Less(Emid, Elow) => (ln.high = ln.mid /\ ln.low = lo)
            /\ (ln.low # lo) # (ln.high # hi)

\* A run in which one iteration met a tie and moved high, another moved low.
C7_Witness ==
    \E j, k \in 1..Len(out) :
        /\ Same(out[j].cost_mid, out[j].cost_low) /\ out[j].high = out[j].mid
        /\ out[j].low = LowBefore(j)
        /\ out[k].low = out[k].mid /\ out[k].high = HighBefore(k)

\* C8: optimize returns for every sample; the loop is left exactly when
\* high - low is no larger than epsilon, which is after 10 iterations
\* whatever the comparisons gave.
C8_OptimizeTerminates ==
    /\ <>Returned
    /\ [](Len(out) <= 10)
    /\ [](Returned => (Len(out) = 10 /\ (high - low) * epsilon_den <= One))
    /\ [](pc = "mid" => (high - low) * epsilon_den > One)

\* optimize has returned after iterations that moved low and iterations that moved high.
C8_Witness ==
    /\ Returned
    /\ Len(out) = 10
    /\ low > 0
    /\ high < One

\* C10: no step changes v1, v2, vmin or vmax, and every value returned so
\* far for a threshold is the value a call with that threshold returns now,
\* so two calls with the same threshold returned the same value.
C10_SampleFixedSameValue ==
    /\ [][v1' = v1 /\ v2' = v2 /\ vmin' = vmin /\ vmax' = vmax]_vars
    /\ [](\A k \in 1..Len(log) : log[k][2] = E(log[k][1]))
    /\ [](\A j, k \in 1..Len(log) : log[j][1] = log[k][1] => log[j][2] = log[k][2])

\* The run is over; a threshold was evaluated by optimize and again by the
\* grid, with pairs whose cost depends on the threshold.
C10_Witness ==
    /\ pc = "done"
    /\ \E j, k \in 1..Len(log) :
          /\ j <= 20 /\ k > 20
          /\ log[j][1] = log[k][1]
          /\ log[j][1] > 0
          /\ log[j][2][1] > 0

-----------------------------------------------------------------------------
(* sign and jumps of the cost *)

\* C11: in every call every pair's cost is >= 0, and so is the mean returned.
C11_CostNonnegative ==
    sim.called =>
        /\ \A k \in 1..Len(sim.all_costs) : sim.all_costs[k] >= 0
        /\ \A i \in 1..N :
              \A k \in 1..Len(PairEntries(sim, i)) : PairEntries(sim, i)[k] >= 0
        /\ sim.ret[1] >= 0
        /\ sim.ret[2] > 0

\* A call with a above both speeds of one pair and below both of another:
\* both squared terms are in the mean.
C11_Witness ==
    /\ sim.called
    /\ \E i, j \in 1..N :
          /\ sim.a > vmax[i] /\ vmin[i] < vmax[i]
          /\ sim.a < vmin[j]
    /\ sim.ret[1] > 0

-----------------------------------------------------------------------------
(* the interval of the search *)

\* The calls optimize has made so far: two for every iteration printed, and
\* those of the iteration under way.
OptCalls ==
    LET n == 2 * Len(out) + (IF pc = "cost_low" THEN 1 ELSE IF pc = "if" THEN 2 ELSE 0)
    IN  SubSeq(log, 1, n)

\* C14: all through optimize 0 <= low < high <= 1, every threshold it passes
\* to simulate_cost_vectorized is in [0, 1], low never decreases, high never
\* increases, and after k iterations high - low is exactly 2^-k.
C14_IntervalInvariant ==
    /\ [](0 <= low /\ low < high /\ high <= One)
    /\ [](\A k \in 1..Len(OptCalls) : 0 <= OptCalls[k][1] /\ OptCalls[k][1] <= One)
    /\ [](pc \in {"cost_mid", "cost_low", "if"} => (low < mid /\ mid < high))
    /\ []((high - low) * 2^Len(out) = One)
    /\ [][low' >= low /\ high' <= high]_vars

\* optimize has returned with both bounds moved and the width at 2^-10.
C14_Witness ==
    /\ Returned
    /\ 0 < low
    /\ high < One
    /\ (high - low) * 1024 = One
    /\ Len(OptCalls) = 20

-----------------------------------------------------------------------------
(* the cost at low along the search *)

\* C15: E(low) never increases from one step to the next and strictly
\* decreases whenever low moves; when optimize has returned, E(low) is at
\* most E(0) and at most the cost of every threshold the search evaluated.
C15_CostAtLowDescends ==
    /\ [][~Less(E(low), E(low'))]_vars
    /\ [][low' # low => Less(E(low'), E(low))]_vars
    /\ [](Returned =>
            LET Elow == E(low)
            IN  /\ ~Less(E(0), Elow)
                /\ \A k \in 1..Len(OptCalls) : ~Less(OptCalls[k][2], Elow))

\* optimize has returned after low moved at least twice and high at least once.
C15_Witness ==
    /\ Returned
    /\ Less(E(low), E(0))
    /\ high < One
    /\ \E j, k \in 1..Len(out) :
          /\ j < k
          /\ out[j].low = out[j].mid
          /\ out[k].low = out[k].mid
          /\ Less(out[k].cost_mid, out[j].cost_mid)

-----------------------------------------------------------------------------
(* the cost at low from one iteration to the next *)

\* C16: the cost_low an iteration recomputes is the cost_mid of the iteration
\* before when that one moved low to mid, and its cost_low when it moved
\* high; computing E(low) again adds nothing to what the search already had.
C16_RecomputedCostLowIsKnown ==
    \A k \in 1..(Len(out) - 1) :
        IF out[k].low = out[k].mid
           THEN out[k + 1].cost_low = out[k].cost_mid
           ELSE out[k + 1].cost_low = out[k].cost_low

\* Two consecutive iterations after a move of low, and two after a move of
\* high, the costs of mid and low being different in the earlier one.
C16_Witness ==
    \E j, k \in 1..(Len(out) - 1) :
        /\ out[j].low = out[j].mid
        /\ out[j + 1].cost_low = out[j].cost_mid
        /\ out[j].cost_mid # out[j].cost_low
        /\ out[k].high = out[k].mid
        /\ out[k + 1].cost_low = out[k].cost_low
        /\ out[k].cost_mid # out[k].cost_low

-----------------------------------------------------------------------------
(* the argument of optimize *)

\* The lines k iterations print when they start from [lo, hi], as a function
\* of the sample alone.
RECURSIVE RefRun(_, _, _)
RefRun(lo, hi, k) ==
    IF k = 0 THEN <<>>
    ELSE LET m == (lo + hi) \div 2
             cm == E(m)
             cl == E(lo)
             nlo == IF Less(cm, cl) THEN m ELSE lo
             nhi == IF Less(cm, cl) THEN hi ELSE m
         IN  <<[low |-> nlo, high |-> nhi, mid |-> m, cost_mid |-> cm, cost_low |-> cl]>>
                 \o RefRun(nlo, nhi, k - 1)

\* C17: optimize does not use its argument: whatever arg_a is, the search
\* starts from low = 0, high = 1 and the (low, high, mid, cost_mid, cost_low)
\* it goes through are those the sample alone determines, so two runs on one
\* sample with different arguments go through the same sequence.  The lines
\* are compared at every loop test; no other step adds a line.
C17_ArgumentIgnored ==
    /\ [](out = <<>> => (low = 0 /\ high = One))
    /\ [](pc = "while" => out = RefRun(0, One, Len(out)))
    /\ [][pc' # "while" => out' = out]_vars
    /\ [](out # <<>> => (low = out[Len(out)].low /\ high = out[Len(out)].high))

\* optimize, called with an argument other than the notebook's 0.5, has
\* returned after moving low.
C17_Witness ==
    /\ Returned
    /\ arg_a # 2560
    /\ Len(out) = 10
    /\ low > 0
    /\ out[1].mid # arg_a

-----------------------------------------------------------------------------
(* the same pairs drawn in another order *)

\* A first call with threshold a, kept in log.
ProbeFirst(a) ==
    /\ log = <<>>
    /\ SimCall(a)
    /\ log' = <<<<a, sim'.ret>>>>
    /\ UNCHANGED <<pc, optvars, gi, costs>>

\* The call of log made again on the sample as it is after the step.
CallAgain ==
    /\ Len(log) = 1
    /\ \E a \in Thresholds :
          /\ a = log[1][1]
          /\ sim' = simulate_cost_vectorized(a)'
          /\ log' = Append(log, <<a, sim'.ret>>)
    /\ UNCHANGED <<pc, optvars, gi, costs>>

\* The sample drawn with the two different speeds of pair i exchanged.
SwapPair(i) ==
    /\ v1[i] # v2[i]
    /\ v1' = [v1 EXCEPT ![i] = v2[i]]
    /\ v2' = [v2 EXCEPT ![i] = v1[i]]
    /\ vmin' = minimum(v1', v2')
    /\ vmax' = maximum(v1', v2')
    /\ CallAgain

\* The sample drawn with the different pairs i and j exchanged.
ExchangePairs(i, j) ==
    /\ <<v1[i], v2[i]>> # <<v1[j], v2[j]>>
    /\ v1' = [v1 EXCEPT ![i] = v1[j], ![j] = v1[i]]
    /\ v2' = [v2 EXCEPT ![i] = v2[j], ![j] = v2[i]]
    /\ vmin' = minimum(v1', v2')
    /\ vmax' = maximum(v1', v2')
    /\ CallAgain

NextRel ==
    \/ \E a \in Thresholds : ProbeFirst(a)
    \/ \E i \in 1..N : SwapPair(i)
    \/ \E i, j \in 1..N : i < j /\ ExchangePairs(i, j)

SpecRel == Init /\ [][NextRel]_vars

\* C18: E(a) depends on the unordered pairs only: after v1 and v2 were
\* exchanged in a pair, or two pairs were exchanged, the call with the same
\* threshold returns the value it returned before.
C18_OrderOfSampleIrrelevant ==
    Len(log) = 2 =>
        /\ log[1][1] = log[2][1]
        /\ log[1][2] = log[2][2]

\* The second call was made after an exchange, for a threshold that is
\* below both speeds of one pair and above both speeds of another.
C18_Witness ==
    /\ Len(log) = 2
    /\ log[2][2][1] > 0
    /\ \E i, j \in 1..N :
          /\ vmin[i] < vmax[i] /\ sim.a < vmin[i]
          /\ vmin[j] < vmax[j] /\ sim.a > vmax[j]

====
